---- MODULE Spec2Model ----
(***************************************************************************)
(* printCNC: conversion of 3D-printer G-code into CNC-mill G-code.         *)
(* Model of src/GCode.py (Command tokenizer, Script transforms, metadata   *)
(* extraction, infill thinning, CNC rewriting, export) and of the call     *)
(* order of src/main.py.                                                    *)
(*                                                                         *)
(* Python strings are sequences of one-character strings.  A GCodeCommand  *)
(* object is a record [id, verb, parameters, comment]; id is the object's  *)
(* identity (list.remove() compares by identity because GCodeCommand       *)
(* defines no __eq__), parameters is the insertion-ordered dict as a       *)
(* sequence of [k, v] pairs.  A parameter value is Num(n) for a number or  *)
(* Str(s) for a token that _getNum could not parse.  Python list indices   *)
(* are 0-based, sequences here are 1-based: list index p is position p+1.  *)
(***************************************************************************)
EXTENDS Integers, Sequences, FiniteSets, TLC

VARIABLES
    text,             \* the string handed to loadFromString
    lines,            \* GCodeScript.lines: the body
    prefixGcode,      \* GCodeScriptCNC.prefixGcode
    suffixGcode,      \* GCodeScriptCNC.suffixGcode
    original,         \* the body as it was loaded (history)
    infillFrequency,  \* main.py --infill-frequency
    clearance,        \* GCodeScriptCNC.clearance
    travelSpeed,      \* GCodeScriptCNC.travelSpeed
    feedSpeed,        \* GCodeScriptCNC.feedSpeed
    altered,          \* convert(): the flag of the collapse loop
    output,           \* the strings returned by export(), in call order
    pc,               \* position in the pipeline of main.py
    err               \* "none" or the exception that ended the pipeline

vars == <<text, lines, prefixGcode, suffixGcode, original, infillFrequency,
          clearance, travelSpeed, feedSpeed, altered, output, pc, err>>

(***************************************************************************)
(* Bounds                                                                  *)
(***************************************************************************)
MaxTextLen == 4
MaxBodyLen == 4
MaxScriptLen == 4
MaxShrinkLen == 3
MaxAffixLen == 2
MaxFrequency == 3
MaxExports == 2

(***************************************************************************)
(* Settings: the defaults of GCodeScriptCNC and of main.py                 *)
(***************************************************************************)
DefaultClearance == 3

DefaultTravelSpeed == 500

DefaultFeedSpeed == 200

DefaultInfillFrequency == 10

(***************************************************************************)
(* Strings                                                                 *)
(***************************************************************************)
Digits == <<"0", "1", "2", "3", "4", "5", "6", "7", "8", "9">>

DigitChars == {Digits[i] : i \in 1..10}

DigitVal(ch) == (CHOOSE i \in 1..10 : Digits[i] = ch) - 1

\* the characters str.split() treats as separators
Whitespace == {" ", "\t", "\n", "\r", "\f"}

\* position of the first occurrence of ch in s, 0 if there is none
RECURSIVE FindFrom(_, _, _)
FindFrom(s, ch, i) ==
    IF i > Len(s) THEN 0
    ELSE IF s[i] = ch THEN i
    ELSE FindFrom(s, ch, i + 1)

Find(s, ch) == FindFrom(s, ch, 1)

\* str.partition(sep): <<head, tail>> around the first sep (sep itself left out)
Partition(s, sep) ==
    LET p == Find(s, sep)
    IN  IF p = 0 THEN <<s, <<>>>>
        ELSE <<SubSeq(s, 1, p - 1), SubSeq(s, p + 1, Len(s))>>

RECURSIVE RStrip(_, _)
RStrip(s, chars) ==
    IF s # <<>> /\ s[Len(s)] \in chars THEN RStrip(SubSeq(s, 1, Len(s) - 1), chars)
    ELSE s

RECURSIVE LStrip(_, _)
LStrip(s, chars) ==
    IF s # <<>> /\ s[1] \in chars THEN LStrip(Tail(s), chars)
    ELSE s

\* str.split(): the maximal runs of non-whitespace characters
RECURSIVE SplitWs(_, _, _)
SplitWs(s, cur, acc) ==
    IF s = <<>> THEN (IF cur = <<>> THEN acc ELSE Append(acc, cur))
    ELSE IF s[1] \in Whitespace
         THEN SplitWs(Tail(s), <<>>, IF cur = <<>> THEN acc ELSE Append(acc, cur))
         ELSE SplitWs(Tail(s), Append(cur, s[1]), acc)

Split(s) == SplitWs(s, <<>>, <<>>)

\* str.split(sep): the pieces between the separators, empty pieces kept
RECURSIVE SplitOn(_, _, _, _)
SplitOn(s, sep, cur, acc) ==
    IF s = <<>> THEN Append(acc, cur)
    ELSE IF s[1] = sep THEN SplitOn(Tail(s), sep, <<>>, Append(acc, cur))
    ELSE SplitOn(Tail(s), sep, Append(cur, s[1]), acc)

SplitLines(s) == SplitOn(s, "\n", <<>>, <<>>)

\* "sub in s"
Contains(s, sub) ==
    \E i \in 1..(Len(s) - Len(sub) + 1) : SubSeq(s, i, i + Len(sub) - 1) = sub

\* s.removeprefix(p)
RemovePrefix(s, p) ==
    IF Len(s) >= Len(p) /\ SubSeq(s, 1, Len(p)) = p THEN SubSeq(s, Len(p) + 1, Len(s))
    ELSE s

Upper == <<"A","B","C","D","E","F","G","H","I","J","K","L","M",
           "N","O","P","Q","R","S","T","U","V","W","X","Y","Z">>

Lower == <<"a","b","c","d","e","f","g","h","i","j","k","l","m",
           "n","o","p","q","r","s","t","u","v","w","x","y","z">>

LowerChar(ch) ==
    IF \E i \in 1..26 : Upper[i] = ch
    THEN Lower[CHOOSE i \in 1..26 : Upper[i] = ch]
    ELSE ch

\* s.lower()
ToLower(s) == [i \in 1..Len(s) |-> LowerChar(s[i])]

RECURSIVE NatToStr(_)
NatToStr(n) ==
    IF n < 10 THEN <<Digits[n + 1]>>
    ELSE Append(NatToStr(n \div 10), Digits[(n % 10) + 1])

\* str(n) of an int, as an f-string and str(round(n, 5)) produce it
IntToStr(n) == IF n < 0 THEN <<"-">> \o NatToStr(0 - n) ELSE NatToStr(n)

RECURSIVE StrToNat(_)
StrToNat(s) ==
    IF Len(s) = 1 THEN DigitVal(s[1])
    ELSE 10 * StrToNat(SubSeq(s, 1, Len(s) - 1)) + DigitVal(s[Len(s)])

IsNatText(s) == s # <<>> /\ \A i \in 1..Len(s) : s[i] \in DigitChars

\* the texts int() accepts, over the characters the model uses
IsIntText(s) ==
    \/ IsNatText(s)
    \/ s # <<>> /\ s[1] = "-" /\ IsNatText(Tail(s))

(***************************************************************************)
(* GCodeCommand                                                            *)
(***************************************************************************)
\* Python str
Text == Seq(STRING)

\* a parameter value: an int, or the str that did not parse
ParamValue == [num : {TRUE}, n : Int] \cup [num : {FALSE}, s : Text]

\* the GCodeCommand objects
Commands ==
    [id : Nat, verb : Text, parameters : Seq([k : STRING, v : ParamValue]),
     comment : Text]

Num(n) == [num |-> TRUE, n |-> n]

Str(s) == [num |-> FALSE, s |-> s]

\* GCodeCommand._getNum: int, else float, else the text itself.  No text of
\* the model has a ".", an exponent, "inf" or "nan", so float() accepts
\* nothing that int() rejected.
GetNum(s) ==
    IF IsIntText(s)
    THEN Num(IF s[1] = "-" THEN 0 - StrToNat(Tail(s)) ELSE StrToNat(s))
    ELSE Str(s)

Keys(params) == {params[i].k : i \in 1..Len(params)}

HasParam(command, key) == key \in Keys(command.parameters)

\* parameters[key]
Param(command, key) ==
    command.parameters[CHOOSE i \in 1..Len(command.parameters) :
                           command.parameters[i].k = key].v

\* parameters[key] = value: in place when the key exists, appended otherwise
SetParam(params, key, value) ==
    IF key \in Keys(params)
    THEN [i \in 1..Len(params) |->
            IF params[i].k = key THEN [k |-> key, v |-> value] ELSE params[i]]
    ELSE Append(params, [k |-> key, v |-> value])

\* del parameters[key]
DelParam(params, key) == SelectSeq(params, LAMBDA p : p.k # key)

IsACommand(command) == command.verb # <<>>

\* StringGCodeCommand._tokenize raises IndexError when the command part has
\* characters but no token: commandTokens[0] of an empty list
TokenizeFails(string) ==
    LET command == RStrip(Partition(string, ";")[1], {" "})
    IN  command # <<>> /\ Split(command) = <<>>

\* StringGCodeCommand._tokenize where it returns: <<verb, parameters, comment>>
Tokenize(string) ==
    LET sections == Partition(string, ";")
        command  == RStrip(sections[1], {" "})
        comment  == LStrip(sections[2], {" "})
        commandTokens == Split(command)
    IN  IF command # <<>>
        THEN <<commandTokens[1], Tail(commandTokens), comment>>
        ELSE <<<<>>, <<>>, comment>>

\* the dict comprehension {i[0]: _getNum(i[1:]) for i in parameters}
RECURSIVE ParamDict(_, _)
ParamDict(tokens, acc) ==
    IF tokens = <<>> THEN acc
    ELSE ParamDict(Tail(tokens),
                   SetParam(acc, tokens[1][1], GetNum(Tail(tokens[1]))))

\* StringGCodeCommand.__init__, the new object getting identity id
StringGCodeCommand(string, id) ==
    LET t == Tokenize(string)
    IN  [id |-> id, verb |-> t[1], parameters |-> ParamDict(t[2], <<>>),
         comment |-> t[3]]

\* a command without its identity
Value(command) ==
    [verb |-> command.verb, parameters |-> command.parameters,
     comment |-> command.comment]

Values(l) == [i \in 1..Len(l) |-> Value(l[i])]

\* str(round(value, 5)) for a number; a string value prints nothing
ValueText(v) == IF v.num THEN IntToStr(v.n) ELSE <<>>

RECURSIVE ParamsText(_)
ParamsText(params) ==
    IF params = <<>> THEN <<>>
    ELSE <<" ", params[1].k>> \o ValueText(params[1].v) \o ParamsText(Tail(params))

GetCommand(command) == command.verb \o ParamsText(command.parameters)

GetFullCommand(command) ==
    IF command.comment # <<>>
    THEN GetCommand(command) \o <<";", " ">> \o command.comment
    ELSE GetCommand(command)

\* a value inside an f-string: str(value)
FormatValue(v) == IF v.num THEN IntToStr(v.n) ELSE v.s

\* -1*value: a number is negated, a str repeated -1 times is ''
Negate(v) == IF v.num THEN Num(0 - v.n) ELSE Str(<<>>)

G0 == <<"G", "0">>

G1 == <<"G", "1">>

(***************************************************************************)
(* GCodeScript                                                             *)
(***************************************************************************)
\* list.remove(x): drops the first element equal to x
RemoveCommand[l \in Seq(Commands), command \in Commands] ==
    LET p == CHOOSE i \in 1..Len(l) :
                 l[i] = command /\ \A j \in 1..(i - 1) : l[j] # command
    IN  SubSeq(l, 1, p - 1) \o SubSeq(l, p + 1, Len(l))

\* list.insert(index, x) at position k
Insert(l, k, x) == SubSeq(l, 1, k - 1) \o <<x>> \o SubSeq(l, k, Len(l))

\* loadFromString raises when one of its lines does not tokenize
LoadFails(string) ==
    LET pieces == SplitLines(string)
    IN  \E i \in 1..Len(pieces) : TokenizeFails(RStrip(pieces[i], {"\n"}))

\* the list loadFromString builds: one Command per line, in order
LoadedLines(string) ==
    LET pieces == SplitLines(string)
    IN  [i \in 1..Len(pieces) |-> StringGCodeCommand(RStrip(pieces[i], {"\n"}), i)]

\* _cleanCommandsFromList: "for command in lines" reads lines[k] while the
\* body of the loop removes from the same list
RECURSIVE CleanFrom(_, _)
CleanFrom(l, k) ==
    IF k > Len(l) THEN l
    ELSE IF IsACommand(l[k])
         THEN CleanFrom([l EXCEPT ![k].comment = <<>>], k + 1)
         ELSE CleanFrom(RemoveCommand[l, l[k]], k + 1)

CleanCommandsFromList(l) == CleanFrom(l, 1)

RECURSIVE Serialize(_)
Serialize(l) ==
    IF l = <<>> THEN <<>>
    ELSE GetFullCommand(l[1]) \o <<"\n">> \o Serialize(Tail(l))

(***************************************************************************)
(* GCodeScriptPrinter: metadata derived from the comments                  *)
(***************************************************************************)
sLAYER == <<"L", "A", "Y", "E", "R">>

sBEFORE == <<"B", "E", "F", "O", "R", "E">>

sAFTER == <<"A", "F", "T", "E", "R">>

sTYPE == <<"T", "Y", "P", "E", ":">>

sNone == <<"N", "o", "n", "e">>

sFill == <<"f", "i", "l", "l">>

sCura == <<"C", "u", "r", "a">>

sPrusaSlicer == <<"P", "r", "u", "s", "a", "S", "l", "i", "c", "e", "r">>

\* getSlicingEngine (lines[0] of an empty list raises IndexError, see
\* ComputeLayerFails)
GetSlicingEngine(l) ==
    IF Contains(l[1].comment, sPrusaSlicer) THEN "PrusaSlicer"
    ELSE IF \E i \in 1..Len(l) : Contains(l[i].comment, sCura) THEN "Cura"
    ELSE "Other"

\* the loop of computeLayerIndices: the positions of the layer markers
RECURSIVE LayerMarkers(_, _)
LayerMarkers(l, k) ==
    IF k > Len(l) THEN <<>>
    ELSE IF /\ Contains(l[k].comment, sLAYER)
            /\ ~Contains(l[k].comment, sBEFORE)
            /\ ~Contains(l[k].comment, sAFTER)
         THEN <<k>> \o LayerMarkers(l, k + 1)
         ELSE LayerMarkers(l, k + 1)

\* computeLayerIndices raises IndexError: lines[0] of an empty script, or
\* layerIndicies.pop(1) on fewer than two markers of a Cura script
ComputeLayerFails(l) ==
    \/ l = <<>>
    \/ GetSlicingEngine(l) = "Cura" /\ Len(LayerMarkers(l, 1)) < 2

\* computeLayerIndices where it returns: for Cura the second marker is popped
ComputeLayerIndices(l) ==
    LET layerIndicies == LayerMarkers(l, 1)
    IN  IF GetSlicingEngine(l) = "Cura"
        THEN <<layerIndicies[1]>> \o SubSeq(layerIndicies, 3, Len(layerIndicies))
        ELSE layerIndicies

\* getLayer returns None
NoLayer == -1

\* getLayer(commandIndex, recompute=False): the 0-based number of the last
\* recorded marker at or before the command
RECURSIVE GetLayerFrom(_, _, _)
GetLayerFrom(layerIndicies, commandIndex, index) ==
    IF index < 1 THEN NoLayer
    ELSE IF layerIndicies[index] <= commandIndex THEN index - 1
    ELSE GetLayerFrom(layerIndicies, commandIndex, index - 1)

GetLayer(layerIndicies, commandIndex) ==
    GetLayerFrom(layerIndicies, commandIndex, Len(layerIndicies))

\* computeTypeChanges: the dict {0: "None"} and one entry per TYPE: comment
RECURSIVE TypeChangesFrom(_, _, _)
TypeChangesFrom(l, k, typeIndicies) ==
    IF k > Len(l) THEN typeIndicies
    ELSE IF Contains(l[k].comment, sTYPE)
         THEN TypeChangesFrom(l, k + 1,
                  SetParam(typeIndicies, k, RemovePrefix(l[k].comment, sTYPE)))
         ELSE TypeChangesFrom(l, k + 1, typeIndicies)

ComputeTypeChanges(l) == TypeChangesFrom(l, 1, <<[k |-> 1, v |-> sNone]>>)

\* getType(commandIndex, recompute=False): the items in reverse order, the
\* first whose key is at or before the command.  The seeded first entry makes
\* the ValueError unreachable for every index of the script.
RECURSIVE GetTypeFrom(_, _, _)
GetTypeFrom(typeIndicies, commandIndex, j) ==
    IF j < 1 THEN "ValueError"
    ELSE IF typeIndicies[j].k <= commandIndex THEN typeIndicies[j].v
    ELSE GetTypeFrom(typeIndicies, commandIndex, j - 1)

GetType(typeIndicies, commandIndex) ==
    GetTypeFrom(typeIndicies, commandIndex, Len(typeIndicies))

(***************************************************************************)
(* GCodeScriptCNCFromGCodeScriptPrinter.removeInfill                       *)
(***************************************************************************)
\* the first operand of the condition of removeInfill
IsFill(l, index) ==
    Contains(ToLower(GetType(ComputeTypeChanges(l), index)), sFill)

\* None % infillFrequency: a fill-typed line before the first recorded marker
LayerModFails(l) ==
    \E index \in 1..Len(l) :
        IsFill(l, index) /\ GetLayer(ComputeLayerIndices(l), index) = NoLayer

\* removeInfill raises: "IndexError" from computeLayerIndices, "TypeError"
\* from None % infillFrequency, else "none"
RemoveInfillError(l) ==
    IF ComputeLayerFails(l) THEN "IndexError"
    ELSE IF LayerModFails(l) THEN "TypeError"
    ELSE "none"

\* ToPop as it would be without the test that keeps the travels
ToPopWithTravels(l, frequency) ==
    {index \in 1..Len(l) :
        /\ IsFill(l, index)
        /\ GetLayer(ComputeLayerIndices(l), index) % frequency # 0}

\* the indices removeInfill collects in toPop
ToPop(l, frequency) ==
    {index \in 1..Len(l) :
        /\ IsFill(l, index)
        /\ GetLayer(ComputeLayerIndices(l), index) % frequency # 0
        /\ l[index].verb # G0}

\* popping the collected indices from the last to the first
RECURSIVE PopAll(_, _, _)
PopAll(l, toPop, index) ==
    IF index < 1 THEN l
    ELSE IF index \in toPop
         THEN PopAll(SubSeq(l, 1, index - 1) \o SubSeq(l, index + 1, Len(l)),
                     toPop, index - 1)
         ELSE PopAll(l, toPop, index - 1)

RemoveInfillLines(l, frequency) == PopAll(l, ToPop(l, frequency), Len(l))

(***************************************************************************)
(* GCodeScriptCNCFromGCodeScriptPrinter.convert                            *)
(***************************************************************************)
USABLE_COMMANDS == {G1, G0}

IsPrinterSpecificCommand(command) == command.verb \notin USABLE_COMMANDS

\* step 1: del parameters['E'], del parameters['F'] on every command
StripParameters(l) ==
    [i \in 1..Len(l) |->
        [l[i] EXCEPT !.parameters = DelParam(DelParam(@, "E"), "F")]]

\* step 2: toRemove is collected first, then each member is removed
RECURSIVE RemoveEach(_, _)
RemoveEach(l, toRemove) ==
    IF toRemove = <<>> THEN l
    ELSE RemoveEach(RemoveCommand[l, toRemove[1]], Tail(toRemove))

RemovePrinterSpecific(l) == RemoveEach(l, SelectSeq(l, IsPrinterSpecificCommand))

\* step 3: parameters['Z'] = -1*parameters['Z']
MirrorZ(l) ==
    [i \in 1..Len(l) |->
        IF HasParam(l[i], "Z")
        THEN [l[i] EXCEPT !.parameters = SetParam(@, "Z", Negate(Param(l[i], "Z")))]
        ELSE l[i]]

\* lines[p] for a Python index p: a negative p counts from the end
At(l, p) == IF p < 0 THEN l[Len(l) + p + 1] ELSE l[p + 1]

InRange(l, p) == 0 - Len(l) <= p /\ p < Len(l)

\* lines[index] past either end of the list: IndexError
NoIndex == 0 - 1000000

\* getCommandRelativeToIndex: index and the result are Python indices;
\* iteration is the sign of offset
RECURSIVE RelativeFrom(_, _, _, _)
RelativeFrom(l, index, offset, currentOffset) ==
    LET iteration == IF offset < 0 THEN 0 - 1 ELSE 1
    IN  IF currentOffset = offset THEN index
        ELSE IF ~InRange(l, index + iteration) THEN NoIndex
        ELSE RelativeFrom(l, index + iteration, offset,
                 IF IsACommand(At(l, index + iteration))
                 THEN currentOffset + iteration ELSE currentOffset)

GetCommandRelativeToIndex(l, index, offset) == RelativeFrom(l, index, offset, 0)

\* command.parameters['Z'] = oldCommand.parameters['Z'] when oldCommand has a
\* Z, for the command at position k
InheritZ(l, k, oldCommand) ==
    IF HasParam(oldCommand, "Z")
    THEN [l EXCEPT ![k].parameters = SetParam(@, "Z", Param(oldCommand, "Z"))]
    ELSE l

\* self.lines.remove(self.getCommandRelativeToIndex(index, -1)) for the
\* command at position k
RemovePrevious[l \in Seq(Commands), k \in Nat] ==
    RemoveCommand[l, At(l, GetCommandRelativeToIndex(l, k - 1, 0 - 1))]

\* MergeInto as it would be had the removal of oldCommand been forgotten
MergeWithoutRemove(l, k, oldCommand) == InheritZ(l, k, oldCommand)

\* the body of the collapse loop where both commands are G0: the command at
\* position k inherits the Z of oldCommand, then oldCommand is removed
MergeInto(l, k, oldCommand) == RemovePrevious[InheritZ(l, k, oldCommand), k]

\* step 4, one pass of "for index, command in enumerate(self.lines)": the
\* iterator reads position k of the list as it is at that moment
CollapseFrom[l \in Seq(Commands), k \in Nat, alt \in BOOLEAN] ==
    IF k > Len(l) THEN [lines |-> l, altered |-> alt, err |-> "none"]
    ELSE LET old == GetCommandRelativeToIndex(l, k - 1, 0 - 1)
         IN  IF old = NoIndex
             THEN [lines |-> l, altered |-> alt, err |-> "IndexError"]
             ELSE IF l[k].verb = G0 /\ At(l, old).verb = G0
             THEN CollapseFrom[MergeInto(l, k, At(l, old)), k + 1, TRUE]
             ELSE CollapseFrom[l, k + 1, alt]

CollapsePassOf(l) == CollapseFrom[l, 1, FALSE]

\* the three commands of step 5, as the f-strings write them
LiftText(clr, travel) ==
    <<"G", "1", " ", "Z">> \o FormatValue(clr) \o <<" ", "F">> \o FormatValue(travel)

\* LateralText as it would be had the lift been folded into the lateral move
LateralTextWithLift(x, y) ==
    <<"G", "1", " ", "X">> \o FormatValue(x) \o <<" ", "Y">> \o FormatValue(y)
        \o <<" ", "Z">> \o IntToStr(DefaultClearance)

LateralText(x, y) ==
    <<"G", "1", " ", "X">> \o FormatValue(x) \o <<" ", "Y">> \o FormatValue(y)

\* PlungeText as it would be had the feed rate been left out of the f-string
PlungeTextWithoutFeed(newAltitude, feed) ==
    <<"G", "1", " ", "Z">> \o FormatValue(newAltitude)

PlungeText(newAltitude, feed) ==
    <<"G", "1", " ", "Z">> \o FormatValue(newAltitude) \o <<" ", "F">> \o FormatValue(feed)

\* identities of the objects convert() creates
NewIdBase == 100

\* the Z the plunge goes to: the command's own Z, else the running altitude
NewAltitude(command, altitude) ==
    IF HasParam(command, "Z") THEN Param(command, "Z") ELSE altitude

\* the body of the expansion loop for a G0 at position k
ExpandAt(l, k, altitude, clr, travel, feed) ==
    LET command == l[k]
        lift    == StringGCodeCommand(LiftText(clr, travel), NewIdBase + k)
        lateral == StringGCodeCommand(
                       LateralText(Param(command, "X"), Param(command, "Y")),
                       NewIdBase + k + 1)
        plunge  == StringGCodeCommand(
                       PlungeText(NewAltitude(command, altitude), feed),
                       NewIdBase + k + 2)
    IN  [Insert(Insert(l, k, lift), k + 1, lateral) EXCEPT ![k + 2] = plunge]

\* step 5: "for index, command in enumerate(self.lines)" over the list that the
\* loop itself grows; parameters['X'] or ['Y'] of a G0 without it: KeyError
RECURSIVE ExpandFrom(_, _, _, _, _, _)
ExpandFrom(l, k, altitude, clr, travel, feed) ==
    IF k > Len(l) THEN [lines |-> l, err |-> "none"]
    ELSE LET alt == IF HasParam(l[k], "Z") THEN Param(l[k], "Z") ELSE altitude
         IN  IF l[k].verb = G0
             THEN IF GetCommandRelativeToIndex(l, k - 1, 0 - 1) = NoIndex
                  THEN [lines |-> l, err |-> "IndexError"]
                  ELSE IF ~HasParam(l[k], "X") \/ ~HasParam(l[k], "Y")
                  THEN [lines |-> l, err |-> "KeyError"]
                  ELSE ExpandFrom(ExpandAt(l, k, alt, clr, travel, feed),
                                  k + 1, alt, clr, travel, feed)
             ELSE ExpandFrom(l, k + 1, alt, clr, travel, feed)

ExpandTravels(l, clr, travel, feed) == ExpandFrom(l, 1, Num(0), clr, travel, feed)

(***************************************************************************)
(* Inputs                                                                  *)
(***************************************************************************)
\* the sequences over S of at least lo and at most hi elements
SeqsOf(S, lo, hi) == UNION {[1..n -> S] : n \in lo..hi}

\* "\n".join(pieces)
RECURSIVE JoinLines(_)
JoinLines(pieces) ==
    IF pieces = <<>> THEN <<>>
    ELSE IF Len(pieces) = 1 THEN pieces[1]
    ELSE pieces[1] \o <<"\n">> \o JoinLines(Tail(pieces))

\* the characters of the raw texts handed to loadFromString
TextChars == {" ", "\t", "\r", "\n", ";", "G", "1"}

\* the lines of the bodies handed to convert(): linear moves, travels with and
\* without X, Y, Z, another verb, a comment-only line
ConvertLines ==
    {<<"G", "1", " ", "X", "1", " ", "Y", "1">>,
     <<"G", "1", " ", "X", "2", " ", "Y", "2", " ", "Z", "1", " ", "E", "1", " ", "F", "9">>,
     <<"G", "0", " ", "X", "3", " ", "Y", "3">>,
     <<"G", "0", " ", "X", "4", " ", "Y", "4", " ", "Z", "2">>,
     <<"G", "0", " ", "Z", "3">>,
     <<"G", "0", " ", "X", "5">>,
     <<"M", "5", " ", "S", "1">>,
     <<";", "c">>}

\* the lines of the scripts handed to removeInfill(): moves, a travel, layer
\* markers, type markers, the mark of the Cura slicer
ScriptLines ==
    {<<"G", "1", " ", "X", "1", "0", " ", "Y", "1", "0", " ", "E", "1", " ", "F", "1", "5", "0", "0">>,
     <<";", " ", "T", "Y", "P", "E", ":", "I", "n", "f", "i", "l", "l">>,
     <<"G", "1", " ", "X", "1", "2", " ", "Y", "1", "0", " ", "E", "1">>,
     <<"G", "0", " ", "X", "0", " ", "Y", "0">>,
     <<";", "L", "A", "Y", "E", "R">>,
     <<";", "T", "Y", "P", "E", ":", "W", "A", "L", "L">>,
     <<";", "C", "u", "r", "a">>}

\* the lines of the bodies handed to shrink() and export()
ShrinkLines ==
    {<<";", "c">>,
     <<"G", "1", " ", "X", "1", ";", "c">>,
     <<"G", "0">>}

\* the lines of the prefix and suffix texts
AffixLines ==
    {<<";", "c">>,
     <<"M", "5", ";", "c">>}

\* the objects of a second and third script get identities of their own
WithIds(l, base) == [i \in 1..Len(l) |-> [l[i] EXCEPT !.id = base + i]]

PrefixIdBase == 200

SuffixIdBase == 300

(***************************************************************************)
(* Initial state: main.py before it reads its source                       *)
(***************************************************************************)
Init ==
    /\ text = <<>>
    /\ lines = <<>>
    /\ original = <<>>
    /\ prefixGcode = <<>>
    /\ suffixGcode = <<>>
    /\ infillFrequency = DefaultInfillFrequency
    /\ clearance = DefaultClearance
    /\ travelSpeed = DefaultTravelSpeed
    /\ feedSpeed = DefaultFeedSpeed
    /\ altered = FALSE
    /\ output = <<>>
    /\ pc = "start"
    /\ err = "none"

(***************************************************************************)
(* Actions                                                                 *)
(***************************************************************************)
\* GCodeScript.loadFromString(string) of a raw text
LoadFromString ==
    /\ pc = "start"
    /\ \E string \in SeqsOf(TextChars, 0, MaxTextLen) :
          /\ text' = string
          /\ IF LoadFails(string)
             THEN /\ err' = "IndexError"
                  /\ pc' = "aborted"
                  /\ UNCHANGED <<lines, original>>
             ELSE /\ lines' = LoadedLines(string)
                  /\ original' = lines'
                  /\ pc' = "loaded text"
                  /\ err' = "none"
    /\ UNCHANGED <<prefixGcode, suffixGcode, infillFrequency, clearance,
                   travelSpeed, feedSpeed, altered, output>>

\* main.py --keep-infill --no-orient: the source is loaded and handed to the
\* converter, convert() is next
LoadBody ==
    /\ pc = "start"
    /\ \E script \in SeqsOf(ConvertLines, 1, MaxBodyLen) :
          /\ text' = JoinLines(script)
          /\ lines' = LoadedLines(text')
          /\ original' = lines'
    /\ pc' = "ready"
    /\ UNCHANGED <<prefixGcode, suffixGcode, infillFrequency, clearance,
                   travelSpeed, feedSpeed, altered, output, err>>

\* main.py --no-orient --infill-frequency F: the source is loaded and handed
\* to the converter, removeInfill(F) is next
LoadScript ==
    /\ pc = "start"
    /\ \E script \in SeqsOf(ScriptLines, 1, MaxScriptLen) :
          /\ text' = JoinLines(script)
          /\ lines' = LoadedLines(text')
          /\ original' = lines'
    /\ infillFrequency' \in 1..MaxFrequency
    /\ pc' = "loaded"
    /\ UNCHANGED <<prefixGcode, suffixGcode, clearance, travelSpeed, feedSpeed,
                   altered, output, err>>

\* a GCodeScriptCNC gets its body, prefixGcode and suffixGcode from three
\* texts (main.py lines 87-93); shrink() and export() are next
Assemble ==
    /\ pc = "start"
    /\ \E script \in SeqsOf(ShrinkLines, 1, MaxShrinkLen) :
          /\ text' = JoinLines(script)
          /\ lines' = LoadedLines(text')
          /\ original' = lines'
    /\ \E p \in SeqsOf(AffixLines, 0, MaxAffixLen) :
          prefixGcode' = IF p = <<>> THEN <<>>
                         ELSE WithIds(LoadedLines(JoinLines(p)), PrefixIdBase)
    /\ \E s \in SeqsOf(AffixLines, 0, MaxAffixLen) :
          suffixGcode' = IF s = <<>> THEN <<>>
                         ELSE WithIds(LoadedLines(JoinLines(s)), SuffixIdBase)
    /\ pc' = "assembled"
    /\ UNCHANGED <<infillFrequency, clearance, travelSpeed, feedSpeed, altered,
                   output, err>>

\* removeInfill(infillFrequency): an exception is raised before any pop
RemoveInfill ==
    /\ pc = "loaded"
    /\ err' = RemoveInfillError(lines)
    /\ IF err' = "none"
       THEN /\ lines' = RemoveInfillLines(lines, infillFrequency)
            /\ pc' = "ready"
       ELSE /\ lines' = lines
            /\ pc' = "aborted"
    /\ UNCHANGED <<text, prefixGcode, suffixGcode, original, infillFrequency,
                   clearance, travelSpeed, feedSpeed, altered, output>>

\* convert(), steps 1 to 3, up to "altered = True"
ConvertStrip ==
    /\ pc = "ready"
    /\ lines' = MirrorZ(RemovePrinterSpecific(StripParameters(lines)))
    /\ altered' = TRUE
    /\ pc' = "collapse"
    /\ UNCHANGED <<text, prefixGcode, suffixGcode, original, infillFrequency,
                   clearance, travelSpeed, feedSpeed, output, err>>

\* convert(), step 4: one iteration of "while altered"
CollapsePass ==
    /\ pc = "collapse"
    /\ altered
    /\ lines' = CollapsePassOf(lines).lines
    /\ altered' = CollapsePassOf(lines).altered
    /\ err' = CollapsePassOf(lines).err
    /\ pc' = IF err' = "none" THEN "collapse" ELSE "aborted"
    /\ UNCHANGED <<text, prefixGcode, suffixGcode, original, infillFrequency,
                   clearance, travelSpeed, feedSpeed, output>>

\* step 5 applied to the body, with the settings of the script
Expanded ==
    ExpandTravels(lines, Num(clearance), Num(travelSpeed), Num(feedSpeed))

\* convert(), step 5, entered when the collapse loop ends
ExpandTravel ==
    /\ pc = "collapse"
    /\ ~altered
    /\ lines' = Expanded.lines
    /\ err' = Expanded.err
    /\ pc' = IF err' = "none" THEN "converted" ELSE "aborted"
    /\ UNCHANGED <<text, prefixGcode, suffixGcode, original, infillFrequency,
                   clearance, travelSpeed, feedSpeed, altered, output>>

\* GCodeScriptCNC.shrink(): the body, then prefixGcode, then suffixGcode
Shrink ==
    /\ pc = "assembled"
    /\ lines' = CleanCommandsFromList(lines)
    /\ prefixGcode' = CleanCommandsFromList(prefixGcode)
    /\ suffixGcode' = CleanCommandsFromList(suffixGcode)
    /\ pc' = "shrunk"
    /\ UNCHANGED <<text, original, infillFrequency, clearance, travelSpeed,
                   feedSpeed, altered, output, err>>

\* export(): "final" is the list prefixGcode itself, extended in place
Export ==
    /\ pc \in {"assembled", "shrunk", "exported"}
    /\ Len(output) < MaxExports
    /\ LET final == prefixGcode \o lines \o suffixGcode
       IN  /\ prefixGcode' = final
           /\ output' = Append(output, Serialize(final))
    /\ pc' = "exported"
    /\ UNCHANGED <<text, lines, suffixGcode, original, infillFrequency,
                   clearance, travelSpeed, feedSpeed, altered, err>>

(***************************************************************************)
(* Specifications                                                          *)
(***************************************************************************)
NextText == LoadFromString

NextConvert == LoadBody \/ ConvertStrip \/ CollapsePass \/ ExpandTravel

NextScript == LoadScript \/ RemoveInfill \/ ConvertStrip \/ CollapsePass \/ ExpandTravel

NextAssembled == Assemble \/ Shrink \/ Export

Next ==
    \/ LoadFromString
    \/ LoadBody
    \/ LoadScript
    \/ Assemble
    \/ RemoveInfill
    \/ ConvertStrip
    \/ CollapsePass
    \/ ExpandTravel
    \/ Shrink
    \/ Export

\* every use of the library at once
Spec == Init /\ [][Next]_vars

\* tokenizing and loading a text
SpecText == Init /\ [][NextText]_vars

\* convert() on a loaded body
SpecConvert == Init /\ [][NextConvert]_vars

\* convert() is straight-line code of one thread: inside "while altered"
\* the next pass is always taken
FairConvert == SpecConvert /\ WF_vars(CollapsePass)

\* removeInfill() followed by convert()
SpecScript == Init /\ [][NextScript]_vars

\* shrink() and export() of an assembled script
SpecAssembled == Init /\ [][NextAssembled]_vars

(***************************************************************************)
(* Properties                                                              *)
(***************************************************************************)
HasZ(command) == HasParam(command, "Z")

HasXorY(command) == HasParam(command, "X") \/ HasParam(command, "Y")

IsTravel(command) == command.verb = G0

\* the body convert() works on when its collapse step starts
PreCollapse == MirrorZ(RemovePrinterSpecific(StripParameters(original)))

CollapseStopped == pc = "collapse" /\ ~altered

\* ---- C1 ----------------------------------------------------------------
AllTravelsHaveXY(l) ==
    \A i \in 1..Len(l) :
        IsTravel(l[i]) => HasParam(l[i], "X") /\ HasParam(l[i], "Y")

\* the Z most recently specified before position i, 0 if there is none
LastZBefore(l, i) ==
    IF \E j \in 1..(i - 1) : HasZ(l[j])
    THEN Param(l[CHOOSE j \in 1..(i - 1) :
                     HasZ(l[j]) /\ \A m \in (j + 1)..(i - 1) : ~HasZ(l[m])], "Z")
    ELSE Num(0)

Move(params) == [verb |-> G1, parameters |-> params, comment |-> <<>>]

\* lift, lateral move and plunge that stand for the travel at position i
TravelTriple(l, i) ==
    << Move(<<[k |-> "Z", v |-> Num(clearance)], [k |-> "F", v |-> Num(travelSpeed)]>>),
       Move(<<[k |-> "X", v |-> Param(l[i], "X")], [k |-> "Y", v |-> Param(l[i], "Y")]>>),
       Move(<<[k |-> "Z", v |-> IF HasZ(l[i]) THEN Param(l[i], "Z")
                                 ELSE LastZBefore(l, i)],
              [k |-> "F", v |-> Num(feedSpeed)]>>) >>

RECURSIVE TravelsReplaced(_, _)
TravelsReplaced(l, i) ==
    IF i > Len(l) THEN <<>>
    ELSE (IF IsTravel(l[i]) THEN TravelTriple(l, i) ELSE <<Value(l[i])>>)
             \o TravelsReplaced(l, i + 1)

\* C1: when every G0 of the body carries X and Y, the expansion step of
\* convert() completes, leaves no G0, and puts in the place of each G0 that
\* survived the collapse exactly a lift (Z = clearance, F = travelSpeed), a
\* lateral move (the G0's X and Y only) and a plunge (F = feedSpeed, Z the
\* G0's own Z, else the last Z an earlier command specified, else 0); every
\* other command stays as it is.
C1_TravelBecomesLiftMovePlunge ==
    [][(CollapseStopped /\ AllTravelsHaveXY(lines))
         => /\ pc' = "converted"
            /\ err' = "none"
            /\ \A i \in 1..Len(lines') : ~IsTravel(lines'[i])
            /\ Values(lines') = TravelsReplaced(lines, 1)]_vars

\* a G1 that sets Z, then a travel without Z of its own, expanded into the
\* three moves, the plunge going back to the Z of the G1
C1_Witness ==
    /\ pc = "converted"
    /\ AllTravelsHaveXY(original)
    /\ \E i \in 1..(Len(lines) - 3) :
          /\ lines[i].id < NewIdBase /\ HasZ(lines[i])
          /\ Keys(lines[i + 1].parameters) = {"Z", "F"}
          /\ Param(lines[i + 1], "Z") = Num(clearance)
          /\ Keys(lines[i + 2].parameters) = {"X", "Y"}
          /\ Keys(lines[i + 3].parameters) = {"Z", "F"}
          /\ Param(lines[i + 3], "Z") = Param(lines[i], "Z")
          /\ Param(lines[i + 3], "Z") # Num(0)
          /\ Param(lines[i + 3], "F") = Num(feedSpeed)

\* ---- C2 ----------------------------------------------------------------
\* C2 as claimed: after convert() no body command carries Z together with X
\* or Y.
C2_NoCommandMovesZWithXY ==
    pc = "converted" =>
        \A i \in 1..Len(lines) : HasZ(lines[i]) => ~HasXorY(lines[i])

\* the command is a G1 of the input that carried Z and X or Y itself: convert()
\* only stripped its E and F and negated its Z
CarriedOver(command) ==
    \E j \in 1..Len(original) :
        /\ original[j].id = command.id
        /\ original[j].verb = G1
        /\ HasZ(original[j]) /\ HasXorY(original[j])
        /\ <<command>> = MirrorZ(StripParameters(<<original[j]>>))

\* C2 amended: no command that convert() creates (lift, lateral move, plunge)
\* carries Z together with X or Y; once convert() has completed, the only
\* body commands that do are G1 moves of the input that carried them already.
C2_OnlyInputMovesCombineZWithXY ==
    /\ \A i \in 1..Len(lines) :
          lines[i].id > NewIdBase => ~(HasZ(lines[i]) /\ HasXorY(lines[i]))
    /\ pc = "converted" =>
          \A i \in 1..Len(lines) :
              (HasZ(lines[i]) /\ HasXorY(lines[i])) => CarriedOver(lines[i])

\* a converted body with a G1 of the input that moves in X, Y and Z at once
\* next to the moves created for a travel
C2_Witness ==
    /\ pc = "converted"
    /\ \E i \in 1..Len(lines) :
          HasZ(lines[i]) /\ HasXorY(lines[i]) /\ CarriedOver(lines[i])
    /\ \E i \in 1..Len(lines) : lines[i].id > NewIdBase /\ HasZ(lines[i])
    /\ \E i \in 1..Len(lines) : lines[i].id > NewIdBase /\ HasXorY(lines[i])

\* ---- C3 ----------------------------------------------------------------
\* position i is the last G0 of a maximal run of G0
IsRunEnd(l, i) ==
    IsTravel(l[i]) /\ (i = Len(l) \/ ~IsTravel(l[i + 1]))

\* the first position of the run that position i belongs to
RunStart(l, i) ==
    CHOOSE j \in 1..i :
        /\ \A m \in j..i : IsTravel(l[m])
        /\ (j = 1 \/ ~IsTravel(l[j - 1]))

\* the last command of the run ending at i, with the Z of the first command
\* of the run that has one
RunSurvivor(l, i) ==
    LET withZ == {m \in RunStart(l, i)..i : HasZ(l[m])}
    IN  IF withZ = {} THEN l[i]
        ELSE LET first == CHOOSE m \in withZ : \A n \in withZ : m <= n
             IN  [l[i] EXCEPT !.parameters = SetParam(@, "Z", Param(l[first], "Z"))]

RECURSIVE RunsCollapsed(_, _)
RunsCollapsed(l, i) ==
    IF i > Len(l) THEN <<>>
    ELSE IF ~IsTravel(l[i]) THEN <<l[i]>> \o RunsCollapsed(l, i + 1)
    ELSE IF IsRunEnd(l, i) THEN <<RunSurvivor(l, i)>> \o RunsCollapsed(l, i + 1)
    ELSE RunsCollapsed(l, i + 1)

\* C3: when the collapse step of convert() has stopped, of every maximal run
\* of consecutive G0 exactly the last command remains, carrying the Z of the
\* first command of the run that specified one; all other commands are as
\* they were.
C3_OneTravelPerRunRemains ==
    CollapseStopped => lines = RunsCollapsed(PreCollapse, 1)

\* ---- C8 ----------------------------------------------------------------
NoAdjacentTravels(l) ==
    \A i \in 1..(Len(l) - 1) : ~(IsTravel(l[i]) /\ IsTravel(l[i + 1]))

\* C8: the collapse loop of convert() terminates; a pass that changes the
\* body makes it strictly shorter; where the loop stops no two adjacent
\* commands are both G0.
C8_CollapseTerminates ==
    /\ (pc = "collapse") ~> (pc # "collapse" \/ ~altered)
    /\ [][(pc = "collapse" /\ altered /\ (lines' # lines \/ altered'))
             => Len(lines') < Len(lines)]_vars
    /\ [](CollapseStopped => NoAdjacentTravels(lines))

\* the loop has stopped after merging a run of travels inside the body
C8_Witness ==
    /\ CollapseStopped
    /\ Len(lines) < Len(PreCollapse)
    /\ \E i \in 1..Len(lines) : IsTravel(lines[i])
    /\ \E i \in 1..Len(lines) : ~IsTravel(lines[i])

\* ---- C9 ----------------------------------------------------------------
\* C9: convert() never raises and never stops part-way.
C9_ConvertNeverRaises == pc # "aborted" /\ err = "none"

\* ---- C4 ----------------------------------------------------------------
\* the positions of the layer markers
LayerMarkerSet(l) ==
    {k \in 1..Len(l) : /\ Contains(l[k].comment, sLAYER)
                       /\ ~Contains(l[k].comment, sBEFORE)
                       /\ ~Contains(l[k].comment, sAFTER)}

\* the recorded markers: for a Cura script the second marker is discarded
RecordedLayers(l) ==
    LET all == LayerMarkerSet(l)
        second == {k \in all : Cardinality({m \in all : m < k}) = 1}
    IN  IF GetSlicingEngine(l) = "Cura" THEN all \ second ELSE all

\* the 0-based layer of position i; -1 before the first recorded marker
LayerAt(l, i) == Cardinality({m \in RecordedLayers(l) : m <= i}) - 1

\* the type in force at position i
TypeAt(l, i) ==
    LET marks == {k \in 1..i : Contains(l[k].comment, sTYPE)}
    IN  IF marks = {} THEN sNone
        ELSE RemovePrefix(l[CHOOSE k \in marks : \A m \in marks : m <= k].comment, sTYPE)

IsInfillAt(l, i) == Contains(ToLower(TypeAt(l, i)), sFill)

FillAfterFirstLayer(l) ==
    \A i \in 1..Len(l) : IsInfillAt(l, i) => LayerAt(l, i) >= 0

Removable(l, i, frequency) ==
    /\ IsInfillAt(l, i)
    /\ LayerAt(l, i) % frequency # 0
    /\ ~IsTravel(l[i])

RECURSIVE Thinned(_, _, _)
Thinned(l, i, frequency) ==
    IF i > Len(l) THEN <<>>
    ELSE (IF Removable(l, i, frequency) THEN <<>> ELSE <<l[i]>>)
             \o Thinned(l, i + 1, frequency)

\* C4: when every infill-typed line lies at or after the first layer marker,
\* removeInfill(F) removes exactly the infill-typed lines that are on a layer
\* with layer mod F # 0 and are not G0; all other lines remain, in order.
\* Type and layer are those of the script before the removal.
C4_RemovesExactlyOffLayerInfill ==
    [][(pc = "loaded" /\ pc' # "loaded" /\ FillAfterFirstLayer(lines))
         => lines' = Thinned(lines, 1, infillFrequency)]_vars

\* removeInfill has removed an infill line of a layer with layer mod F # 0
C4_Witness ==
    /\ pc = "ready"
    /\ FillAfterFirstLayer(original)
    /\ Len(lines) < Len(original)
    /\ \E i \in 1..Len(original) :
          IsInfillAt(original, i) /\ LayerAt(original, i) % infillFrequency # 0

\* ---- C5 ----------------------------------------------------------------
ScenarioText ==
    JoinLines(<<<<"G", "1", " ", "X", "1", "0", " ", "Y", "1", "0", " ", "E", "1", " ", "F", "1", "5", "0", "0">>,
                <<";", " ", "T", "Y", "P", "E", ":", "I", "n", "f", "i", "l", "l">>,
                <<"G", "1", " ", "X", "1", "2", " ", "Y", "1", "0", " ", "E", "1">>,
                <<"G", "0", " ", "X", "0", " ", "Y", "0">>>>)

ScenarioResultText ==
    JoinLines(<<<<"G", "1", " ", "X", "1", "0", " ", "Y", "1", "0">>,
                <<"G", "1", " ", "X", "1", "2", " ", "Y", "1", "0">>,
                <<"G", "1", " ", "Z", "3", " ", "F", "5", "0", "0">>,
                <<"G", "1", " ", "X", "0", " ", "Y", "0">>,
                <<"G", "1", " ", "Z", "0", " ", "F", "2", "0", "0">>>>)

IsScenario == text = ScenarioText /\ infillFrequency = 2

\* C5: removeInfill(2) then convert() on the four-line scenario completes;
\* the infill move G1 X12 Y10 and the travel are kept, E and F of the input
\* are gone, and the G0 has become lift, lateral move to X0 Y0 and plunge.
C5_ScenarioConverts ==
    IsScenario =>
        /\ pc # "aborted"
        /\ err = "none"
        /\ pc = "converted" => Values(lines) = Values(LoadedLines(ScenarioResultText))

\* ---- C6 ----------------------------------------------------------------
WithoutComment(command) == [command EXCEPT !.comment = <<>>]

\* the real commands of l in their order, comments cleared
RealCommands(l) ==
    LET real == SelectSeq(l, IsACommand)
    IN  [i \in 1..Len(real) |-> WithoutComment(real[i])]

\* C6: shrink() leaves in the body, in prefixGcode and in suffixGcode exactly
\* the real commands of before, in their order, each with an empty comment,
\* and no line with an empty verb.
C6_ShrinkKeepsRealCommands ==
    [][(pc = "assembled" /\ pc' = "shrunk")
         => /\ lines' = RealCommands(lines)
            /\ prefixGcode' = RealCommands(prefixGcode)
            /\ suffixGcode' = RealCommands(suffixGcode)]_vars

\* ---- C7 ----------------------------------------------------------------
OnlyBlanks(s) == \A j \in 1..Len(s) : s[j] \in {" ", "\t", "\r"}

\* C7: every line of the text with nothing but spaces, tabs and carriage
\* returns before its first ";" is loaded without failure as a Command with
\* an empty verb and no parameters, whose comment is the text after the
\* first ";" without its leading spaces.
C7_BlankLineIsNotACommand ==
    pc # "start" =>
        \A i \in 1..Len(SplitLines(text)) :
            LET sections == Partition(SplitLines(text)[i], ";")
            IN  OnlyBlanks(sections[1]) =>
                    /\ err = "none"
                    /\ pc = "loaded text"
                    /\ lines[i].verb = <<>>
                    /\ lines[i].parameters = <<>>
                    /\ lines[i].comment = LStrip(sections[2], {" "})

\* ---- C10 ---------------------------------------------------------------
\* C10: export() returns the serialization of prefixGcode, body and
\* suffixGcode in this order and leaves the three lists as they were, so a
\* second export() returns the text of the first.
C10_ExportLeavesScriptUnchanged ==
    [][(Len(output') = Len(output) + 1)
         => /\ output'[Len(output')] =
                  Serialize(prefixGcode) \o Serialize(lines) \o Serialize(suffixGcode)
            /\ prefixGcode' = prefixGcode
            /\ lines' = lines
            /\ suffixGcode' = suffixGcode
            /\ (output # <<>> => output'[Len(output')] = output[Len(output)])]_vars

====
